---- MODULE Spec2Model ----
(***************************************************************************)
(* The Treadmill Run Coach backend (backend_scaffold.py): the seeded       *)
(* workout generator, the in-memory template and session stores, and the   *)
(* server-authoritative session timer; and the line-oriented workout text  *)
(* parser (workout_parser.py).                                             *)
(*                                                                         *)
(* Time is counted in whole seconds.  Speeds are kept in tenths of a mph   *)
(* (4.0 mph is 40).  A Python dict is a function on its keys, so an absent *)
(* key is a key outside the DOMAIN.  The template's created_at (a wall     *)
(* clock reading no operation ever reads back) is left out.                *)
(***************************************************************************)
EXTENDS Integers, Sequences, FiniteSets, TLC

VARIABLES
    WORKOUTS,   \* _WORKOUTS: workout id -> WorkoutTemplate
    SESSIONS,   \* _SESSIONS: session id -> SessionState
    now,        \* the reading time.monotonic() returns
    response,   \* the last HTTP response: the operation, the id it names, the status code
    parser,     \* one call of WorkoutParser.parse_chatgpt_workout: its locals and its outcome
    threads     \* the worker threads of the server: where each is in a getState call

vars == <<WORKOUTS, SESSIONS, now, response, parser, threads>>

-----------------------------------------------------------------------------
(* Bounds of the model *)

ClockUnit == 30      \* seconds between two clock readings the model tells apart
MaxTicks == 7        \* the last clock reading explored, in clock units
MaxIndex == 3        \* cap on current_segment_index (skip has no upper limit of its own)

MaxClock == MaxTicks * ClockUnit

\* how far the clock may move between two calls
ClockSteps == {ClockUnit, 5 * ClockUnit}

\* outcomes of random.randint(0, 2**31 - 1) on the process-wide source: those the
\* whole service is run with, and those the generator alone is run with
RandInts == {7}
GenRandInts == {0, 7}

\* ids uuid4 may hand out: the stores hold up to two templates and one session
WorkoutIds == {1, 2}
SessionIds == {1}

\* ids a request may name; session id 0 is an id the store never holds
RequestWorkoutIds == WorkoutIds
RequestSessionIds == {0} \cup SessionIds

-----------------------------------------------------------------------------
(* Helpers *)

Max(a, b) == IF a >= b THEN a ELSE b
Min(a, b) == IF a <= b THEN a ELSE b

\* dict.get(key, default)
Get(d, key, default) == IF key \in DOMAIN d THEN d[key] ELSE default

\* the empty dict
EmptyDict == [k \in {} |-> 0]

\* uuid.uuid4(): an id no entry of the store has yet
Uuid4(store, ids) == CHOOSE i \in ids \ DOMAIN store : \A j \in ids \ DOMAIN store : i <= j

\* store[key] = value
Put(store, key, value) ==
    [k \in DOMAIN store \cup {key} |-> IF k = key THEN value ELSE store[k]]

-----------------------------------------------------------------------------
(* random.Random(seed): a generator whose stream is a function of the seed *)
(* alone.  The stream here is a Lehmer generator's, not the Mersenne       *)
(* Twister's.                                                              *)

RndSeed(seed) == (seed % 65536) + 1
RndNext(x) == (x * 75) % 65537
\* rnd.choice(seq), read off the state the draw has just moved to
Choice(seq, x) == seq[(x % Len(seq)) + 1]

-----------------------------------------------------------------------------
(* Generation with a seed *)

STEADY_SPEEDS == <<58, 60, 61, 63>>
PUSH_SPEEDS == <<67, 69, 70, 71>>
INCLINES == <<0, 1, 1, 2, 3>>
\* steady blocks of up to five minutes
STEADY_DURATIONS_Long == <<120, 180, 300>>
STEADY_DURATIONS == <<120, 180, 240>>
PUSH_DURATIONS == <<60, 90, 120>>
WARM_SPEED == 40

IntervalSegment(idx, d, speed, incline, lab) ==
    [index |-> idx, duration_s |-> d, speed_mph |-> speed, incline_pct |-> incline, label |-> lab]

RECURSIVE SumDurations(_)
SumDurations(segs) ==
    IF segs = <<>> THEN 0 ELSE segs[1].duration_s + SumDurations(Tail(segs))

Warm(total_s) == IF total_s >= 600 THEN 300 ELSE Max(60, total_s \div 10)

Remain(total_s, warm) == Max(0, total_s - warm - 300)

Cool(total_s, emitted) == Min(300, Max(60, total_s - emitted))

\* the while loop: a steady block, then (when time remains) a push block
RECURSIVE Blocks(_, _, _)
Blocks(segs, remain, x) ==
    IF remain <= 0 THEN segs
    ELSE
        LET x1 == RndNext(x)
            x2 == RndNext(x1)
            x3 == RndNext(x2)
            d1 == Min(remain, Choice(STEADY_DURATIONS, x1))
            segs1 == Append(segs, IntervalSegment(Len(segs), d1,
                         Choice(STEADY_SPEEDS, x2), Choice(INCLINES, x3), "steady"))
            remain1 == remain - d1
        IN  IF remain1 <= 0 THEN segs1
            ELSE
                LET x4 == RndNext(x3)
                    x5 == RndNext(x4)
                    x6 == RndNext(x5)
                    d2 == Min(remain1, Choice(PUSH_DURATIONS, x4))
                    segs2 == Append(segs1, IntervalSegment(Len(segs1), d2,
                                 Choice(PUSH_SPEEDS, x5), Choice(INCLINES, x6), "push"))
                IN  Blocks(segs2, remain1 - d2, x6)

\* a renumbering that counts from one
Reindex_FromOne(segs) == [i \in 1..Len(segs) |-> [segs[i] EXCEPT !.index = i]]

Reindex(segs) == [i \in 1..Len(segs) |-> [segs[i] EXCEPT !.index = i - 1]]

generate_segments(total_s, seed) ==
    LET warm == Warm(total_s)
        first == <<IntervalSegment(0, warm, WARM_SPEED, 0, "warmup")>>
        body == Blocks(first, Remain(total_s, warm), RndSeed(seed))
        cool == Cool(total_s, SumDurations(body))
        segs == IF cool > 0
                THEN Append(body, IntervalSegment(Len(body), cool, WARM_SPEED, 0, "cooldown"))
                ELSE body
    IN  Reindex(segs)

-----------------------------------------------------------------------------
(* Workouts API *)

DEFAULT_DURATION_MIN == 30

\* int(inputs.get("seed") or random.randint(0, 2**31 - 1)): None and 0 are both falsy
SeedOf(inputs, drawn) ==
    IF "seed" \in DOMAIN inputs /\ inputs["seed"] # 0 THEN inputs["seed"] ELSE drawn

WorkoutTemplate(wid, inputs, seed, segments, total_s) ==
    [id |-> wid, source |-> "ai", inputs |-> inputs, seed |-> seed,
     segments |-> segments, stats |-> [total_time_s |-> total_s]]

\* a template built for the default duration whatever the inputs ask for
NewWorkout_DefaultDuration(wid, inputs, drawn) ==
    LET total_s == DEFAULT_DURATION_MIN * 60
        seed == SeedOf(inputs, drawn)
    IN  WorkoutTemplate(wid, inputs, seed, generate_segments(total_s, seed), total_s)

\* a template whose blocks are chosen from a source that the process-wide draws move
NewWorkout_SharedSource(wid, inputs, drawn) ==
    LET duration_min == Get(inputs, "duration_min", DEFAULT_DURATION_MIN)
        total_s == duration_min * 60
        seed == SeedOf(inputs, drawn)
    IN  WorkoutTemplate(wid, inputs, seed, generate_segments(total_s, seed + drawn), total_s)

\* the template generate_workout builds for these inputs under this id
NewWorkout(wid, inputs, drawn) ==
    LET duration_min == Get(inputs, "duration_min", DEFAULT_DURATION_MIN)
        total_s == duration_min * 60
        seed == SeedOf(inputs, drawn)
    IN  WorkoutTemplate(wid, inputs, seed, generate_segments(total_s, seed), total_s)

Respond(op, id, code) == [op |-> op, id |-> id, code |-> code]

\* POST /workouts/generate
generate_workout(inputs, drawn) ==
    /\ WorkoutIds \ DOMAIN WORKOUTS # {}
    /\ LET wid == Uuid4(WORKOUTS, WorkoutIds)
       IN  /\ WORKOUTS' = Put(WORKOUTS, wid, NewWorkout(wid, inputs, drawn))
           /\ response' = Respond("generate", wid, 200)
    /\ UNCHANGED <<SESSIONS, now, parser, threads>>

\* GET /workouts/{workout_id}
get_workout(workout_id) ==
    /\ response' = Respond("get", workout_id, IF workout_id \in DOMAIN WORKOUTS THEN 200 ELSE 404)
    /\ UNCHANGED <<WORKOUTS, SESSIONS, now, parser, threads>>

\* inputs = dict(base.inputs); inputs["seed"] = random.randint(0, 2**31 - 1)
RegenerateInputs(base, drawn) ==
    [k \in DOMAIN base.inputs \cup {"seed"} |-> IF k = "seed" THEN drawn ELSE base.inputs[k]]

\* regenerate that writes the new plan over the template it was asked to vary
regenerate_workout_InPlace(workout_id, drawn, drawn2) ==
    IF workout_id \notin DOMAIN WORKOUTS
    THEN /\ response' = Respond("regenerate", workout_id, 404)
         /\ UNCHANGED <<WORKOUTS, SESSIONS, now, parser, threads>>
    ELSE /\ WorkoutIds \ DOMAIN WORKOUTS # {}
         /\ LET inputs == RegenerateInputs(WORKOUTS[workout_id], drawn)
            IN  /\ WORKOUTS' = Put(WORKOUTS, workout_id, NewWorkout(workout_id, inputs, drawn2))
                /\ response' = Respond("regenerate", workout_id, 200)
         /\ UNCHANGED <<SESSIONS, now, parser, threads>>

\* POST /workouts/{workout_id}/regenerate
regenerate_workout(workout_id, drawn, drawn2) ==
    IF workout_id \notin DOMAIN WORKOUTS
    THEN /\ response' = Respond("regenerate", workout_id, 404)
         /\ UNCHANGED <<WORKOUTS, SESSIONS, now, parser, threads>>
    ELSE /\ WorkoutIds \ DOMAIN WORKOUTS # {}
         /\ LET wid == Uuid4(WORKOUTS, WorkoutIds)
                inputs == RegenerateInputs(WORKOUTS[workout_id], drawn)
            IN  /\ WORKOUTS' = Put(WORKOUTS, wid, NewWorkout(wid, inputs, drawn2))
                /\ response' = Respond("regenerate", wid, 200)
         /\ UNCHANGED <<SESSIONS, now, parser, threads>>

-----------------------------------------------------------------------------
(* Sessions API: the server-authoritative timer *)

SessionState(sid, workout_id, t) ==
    [id |-> sid, workout_id |-> workout_id, status |-> "idle", elapsed_s |-> 0,
     segment_elapsed_s |-> 0, current_segment_index |-> 0, last_tick_mono |-> t]

\* a rollover that moves to the next segment and keeps the whole segment time
Rollover_NoSubtract(s, segs) ==
    IF /\ s.current_segment_index < Len(segs)
       /\ s.segment_elapsed_s >= segs[s.current_segment_index + 1].duration_s
    THEN [s EXCEPT !.current_segment_index = @ + 1]
    ELSE s

\* a rollover that tests the segment boundary once ("if" for "while")
Rollover_Once(s, segs) ==
    IF /\ s.current_segment_index < Len(segs)
       /\ s.segment_elapsed_s >= segs[s.current_segment_index + 1].duration_s
    THEN [s EXCEPT !.segment_elapsed_s = @ - segs[s.current_segment_index + 1].duration_s,
                   !.current_segment_index = @ + 1]
    ELSE s

\* a rollover that leaves a segment only once its duration is exceeded (">" for ">=")
RECURSIVE Rollover_Strict(_, _)
Rollover_Strict(s, segs) ==
    IF /\ s.current_segment_index < Len(segs)
       /\ s.segment_elapsed_s > segs[s.current_segment_index + 1].duration_s
    THEN Rollover_Strict([s EXCEPT !.segment_elapsed_s = @ - segs[s.current_segment_index + 1].duration_s,
                                   !.current_segment_index = @ + 1], segs)
    ELSE s

\* the while loop of _tick: carry the overflow into the following segments
RECURSIVE Rollover(_, _)
Rollover(s, segs) ==
    IF /\ s.current_segment_index < Len(segs)
       /\ s.segment_elapsed_s >= segs[s.current_segment_index + 1].duration_s
    THEN Rollover([s EXCEPT !.segment_elapsed_s = @ - segs[s.current_segment_index + 1].duration_s,
                            !.current_segment_index = @ + 1], segs)
    ELSE s

\* completion that leaves elapsed_s as measured
Complete_NoClamp(s, w) ==
    IF s.current_segment_index >= Len(w.segments)
    THEN [s EXCEPT !.status = "completed", !.segment_elapsed_s = 0]
    ELSE s

\* completion only once the index has gone beyond the segment count (">" for ">=")
Complete_Strict(s, w) ==
    IF s.current_segment_index > Len(w.segments)
    THEN [s EXCEPT !.status = "completed", !.segment_elapsed_s = 0,
                   !.elapsed_s = Get(w.stats, "total_time_s", s.elapsed_s)]
    ELSE s

\* if s.current_segment_index >= len(segs): completed, clamped to stats.total_time_s
Complete(s, w) ==
    IF s.current_segment_index >= Len(w.segments)
    THEN [s EXCEPT !.status = "completed", !.segment_elapsed_s = 0,
                   !.elapsed_s = Get(w.stats, "total_time_s", s.elapsed_s)]
    ELSE s

\* a tick that does not look at the status
Tick_AnyStatus(s, t) ==
    LET delta == Max(0, t - s.last_tick_mono)
    IN  IF delta > 0
        THEN LET s1 == [s EXCEPT !.elapsed_s = @ + delta, !.segment_elapsed_s = @ + delta]
                 s2 == IF s.workout_id \in DOMAIN WORKOUTS
                       THEN Complete(Rollover(s1, WORKOUTS[s.workout_id].segments),
                                     WORKOUTS[s.workout_id])
                       ELSE s1
             IN  [s2 EXCEPT !.last_tick_mono = t]
        ELSE s

\* the session _tick(s) leaves behind when time.monotonic() reads t
Tick(s, t) ==
    IF s.status # "running" THEN s
    ELSE
        LET delta == Max(0, t - s.last_tick_mono)
        IN  IF delta > 0
            THEN LET s1 == [s EXCEPT !.elapsed_s = @ + delta, !.segment_elapsed_s = @ + delta]
                     s2 == IF s.workout_id \in DOMAIN WORKOUTS
                           THEN Complete(Rollover(s1, WORKOUTS[s.workout_id].segments),
                                         WORKOUTS[s.workout_id])
                           ELSE s1
                 IN  [s2 EXCEPT !.last_tick_mono = t]
            ELSE s

NotFound(op, id) ==
    /\ response' = Respond(op, id, 404)
    /\ UNCHANGED <<WORKOUTS, SESSIONS, now, parser, threads>>

\* a handler that keeps one timer per template: what it stores for a session
\* shows in every session of the same template
Return_PerTemplate(op, sid, s) ==
    /\ SESSIONS' = [k \in DOMAIN SESSIONS \cup {sid} |->
                        IF k = sid THEN s
                        ELSE IF SESSIONS[k].workout_id = s.workout_id
                        THEN [s EXCEPT !.id = k]
                        ELSE SESSIONS[k]]
    /\ response' = Respond(op, sid, 200)
    /\ UNCHANGED <<WORKOUTS, now, parser, threads>>

\* the handler stores the session s under sid and returns it
Return(op, sid, s) ==
    /\ SESSIONS' = Put(SESSIONS, sid, s)
    /\ response' = Respond(op, sid, 200)
    /\ UNCHANGED <<WORKOUTS, now, parser, threads>>

\* create that does not look the template up
create_session_Unchecked(workout_id) ==
    /\ SessionIds \ DOMAIN SESSIONS # {}
    /\ LET sid == Uuid4(SESSIONS, SessionIds)
       IN  Return("create", sid, SessionState(sid, workout_id, now))

\* POST /sessions, with uuid4 drawing the new id from ids
CreateSession(workout_id, ids) ==
    IF workout_id \notin DOMAIN WORKOUTS
    THEN NotFound("create", workout_id)
    ELSE /\ ids \ DOMAIN SESSIONS # {}
         /\ LET sid == Uuid4(SESSIONS, ids)
            IN  Return("create", sid, SessionState(sid, workout_id, now))

\* POST /sessions
create_session(workout_id) == CreateSession(workout_id, SessionIds)

Started(s, t) == [s EXCEPT !.status = "running", !.last_tick_mono = t]

\* POST /sessions/{sid}/start
start_session(sid) ==
    IF sid \notin DOMAIN SESSIONS
    THEN NotFound("start", sid)
    ELSE Return("start", sid, Started(SESSIONS[sid], now))

\* pause that does not flush the accrued time
Paused_NoTick(s, t) == [s EXCEPT !.status = "paused"]

Paused(s, t) == [Tick(s, t) EXCEPT !.status = "paused"]

\* POST /sessions/{sid}/pause
pause_session(sid) ==
    IF sid \notin DOMAIN SESSIONS
    THEN NotFound("pause", sid)
    ELSE Return("pause", sid, Paused(SESSIONS[sid], now))

\* resume that leaves the tick baseline where the pause left it
Resumed_NoRebaseline(s, t) == [s EXCEPT !.status = "running"]

Resumed(s, t) == [s EXCEPT !.status = "running", !.last_tick_mono = t]

\* POST /sessions/{sid}/resume
resume_session(sid) ==
    IF sid \notin DOMAIN SESSIONS
    THEN NotFound("resume", sid)
    ELSE Return("resume", sid, Resumed(SESSIONS[sid], now))

\* skip that restarts the overall count along with the segment's
Skipped_Restart(s, t) ==
    [Tick(s, t) EXCEPT !.current_segment_index = @ + 1, !.segment_elapsed_s = 0,
                       !.elapsed_s = 0]

Skipped(s, t) ==
    [Tick(s, t) EXCEPT !.current_segment_index = @ + 1, !.segment_elapsed_s = 0]

\* POST /sessions/{sid}/skip
skip_segment(sid) ==
    IF sid \notin DOMAIN SESSIONS
    THEN NotFound("skip", sid)
    ELSE /\ Tick(SESSIONS[sid], now).current_segment_index < MaxIndex
         /\ Return("skip", sid, Skipped(SESSIONS[sid], now))

\* back that steps down without stopping at the first segment
Backed_NoFloor(s, t) ==
    [Tick(s, t) EXCEPT !.current_segment_index = @ - 1, !.segment_elapsed_s = 0]

Backed(s, t) ==
    [Tick(s, t) EXCEPT !.current_segment_index = Max(0, @ - 1), !.segment_elapsed_s = 0]

\* POST /sessions/{sid}/back
back_segment(sid) ==
    IF sid \notin DOMAIN SESSIONS
    THEN NotFound("back", sid)
    ELSE Return("back", sid, Backed(SESSIONS[sid], now))

\* getState without the lookup guard: an unknown id ends in a server error
get_state_Unguarded(sid) ==
    IF sid \notin DOMAIN SESSIONS
    THEN /\ response' = Respond("get_state", sid, 500)
         /\ UNCHANGED <<WORKOUTS, SESSIONS, now, parser, threads>>
    ELSE Return("get_state", sid, Tick(SESSIONS[sid], now))

\* GET /sessions/{sid}
get_state(sid) ==
    IF sid \notin DOMAIN SESSIONS
    THEN NotFound("get_state", sid)
    ELSE Return("get_state", sid, Tick(SESSIONS[sid], now))

\* the monotonic clock moves on between two calls
Advance(d) ==
    /\ now + d <= MaxClock
    /\ now' = now + d
    /\ UNCHANGED <<WORKOUTS, SESSIONS, response, parser, threads>>

-----------------------------------------------------------------------------
(* Overlapping calls                                                        *)
(*                                                                         *)
(* The handlers are plain functions, which the server runs on the threads   *)
(* of a pool, and neither _SESSIONS nor a session is guarded by a lock.  A  *)
(* getState call is taken here one group of statements of _tick at a time,  *)
(* each group atomic; its locals now and delta live in the thread.          *)

Threads == {1, 2}

\* a thread between two calls
Idle == [pc |-> "idle", sid |-> 0, now |-> 0, delta |-> 0]

\* s = _SESSIONS.get(sid); then _tick up to "if delta > 0"
get_state_enter(th, sid) ==
    /\ threads[th].pc = "idle"
    /\ sid \in DOMAIN SESSIONS
    /\ LET s == SESSIONS[sid]
           delta == Max(0, now - s.last_tick_mono)
       IN  IF s.status = "running" /\ delta > 0
           THEN /\ threads' = [threads EXCEPT ![th] =
                                  [pc |-> "accrue", sid |-> sid, now |-> now, delta |-> delta]]
                /\ UNCHANGED response
           ELSE /\ response' = Respond("get_state", sid, 200)
                /\ UNCHANGED threads
    /\ UNCHANGED <<WORKOUTS, SESSIONS, now, parser>>

\* s.elapsed_s += delta; s.segment_elapsed_s += delta
tick_accrue(th) ==
    /\ threads[th].pc = "accrue"
    /\ SESSIONS' = [SESSIONS EXCEPT ![threads[th].sid] =
                       [@ EXCEPT !.elapsed_s = @ + threads[th].delta,
                                 !.segment_elapsed_s = @ + threads[th].delta]]
    /\ threads' = [threads EXCEPT ![th].pc = "rollover"]
    /\ UNCHANGED <<WORKOUTS, now, response, parser>>

\* the while loop and the completion test
tick_rollover(th) ==
    /\ threads[th].pc = "rollover"
    /\ LET s == SESSIONS[threads[th].sid]
       IN  SESSIONS' = [SESSIONS EXCEPT ![threads[th].sid] =
                           IF s.workout_id \in DOMAIN WORKOUTS
                           THEN Complete(Rollover(s, WORKOUTS[s.workout_id].segments),
                                         WORKOUTS[s.workout_id])
                           ELSE s]
    /\ threads' = [threads EXCEPT ![th].pc = "exit"]
    /\ UNCHANGED <<WORKOUTS, now, response, parser>>

\* s.last_tick_mono = now; return s
tick_exit(th) ==
    /\ threads[th].pc = "exit"
    /\ SESSIONS' = [SESSIONS EXCEPT ![threads[th].sid].last_tick_mono = threads[th].now]
    /\ response' = Respond("get_state", threads[th].sid, 200)
    /\ threads' = [threads EXCEPT ![th] = Idle]
    /\ UNCHANGED <<WORKOUTS, now, parser>>

-----------------------------------------------------------------------------
(* The workout text parser (workout_parser.py)                              *)
(*                                                                         *)
(* A line of the text is kept as what the parser's tests see of it: whether *)
(* line.strip() is empty, and the groups each of the three regular          *)
(* expressions captures on it (the empty sequence where re.search finds     *)
(* nothing).  Captured numbers are kept as the characters matched, so that  *)
(* int() and float() are conversions with their own failures.              *)

MaxLines == 4        \* lines of text a call is given

Line(blank, section, repeat, interval) ==
    [blank |-> blank, section |-> section, repeat |-> repeat, interval |-> interval]

IntervalMatch(duration, speed, description) ==
    <<[duration |-> duration, speed |-> speed, description |-> description]>>

\* the lines a text is made of
BlankLine == Line(TRUE, <<>>, <<>>, <<>>)
HeaderLine == Line(FALSE, <<"Main Set">>, <<>>, <<>>)
RepeatTwiceLine == Line(FALSE, <<>>, <<"2">>, <<>>)
RepeatThriceLine == Line(FALSE, <<>>, <<"3">>, <<>>)
RunLine == Line(FALSE, <<>>, <<>>, IntervalMatch(<<"2">>, <<"6", ".", "0">>, <<>>))
WalkLine == Line(FALSE, <<>>, <<>>, IntervalMatch(<<"1">>, <<"4", ".", "5">>, <<"easy">>))
ZeroDurationLine == Line(FALSE, <<>>, <<>>, IntervalMatch(<<"0">>, <<"5", ".", "0">>, <<>>))
ZeroSpeedLine == Line(FALSE, <<>>, <<>>, IntervalMatch(<<"3">>, <<"0">>, <<>>))
BadSpeedLine == Line(FALSE, <<>>, <<>>, IntervalMatch(<<"3">>, <<"1", ".", "2", ".", "3">>, <<>>))
InclineLine == Line(FALSE, <<>>, <<>>, IntervalMatch(<<"3">>, <<"5", ".", "5">>, <<"incline 2">>))
OtherLine == Line(FALSE, <<>>, <<>>, <<>>)

Lines == {BlankLine, HeaderLine, RepeatTwiceLine, RepeatThriceLine, RunLine, WalkLine, ZeroDurationLine,
          ZeroSpeedLine, BadSpeedLine, InclineLine, OtherLine}

\* the values parse_chatgpt_workout may be handed: type(text) and bool(text)
Texts == {[type |-> "NoneType", truthy |-> FALSE], [type |-> "int", truthy |-> FALSE],
          [type |-> "int", truthy |-> TRUE], [type |-> "str", truthy |-> FALSE],
          [type |-> "str", truthy |-> TRUE]}

Digits == <<"0", "1", "2", "3", "4", "5", "6", "7", "8", "9">>

DigitValue(c) == (CHOOSE i \in 1..Len(Digits) : Digits[i] = c) - 1

IsDigit(c) == \E i \in 1..Len(Digits) : Digits[i] = c

\* int(s) of a run of digits
RECURSIVE int(_)
int(s) == IF s = <<>> THEN 0 ELSE int(SubSeq(s, 1, Len(s) - 1)) * 10 + DigitValue(s[Len(s)])

\* float(s) of a run of digits and dots, in tenths: the empty sequence where float
\* raises ValueError (a second dot, or no digit at all)
float(s) ==
    LET dots == {i \in 1..Len(s) : s[i] = "."}
    IN  IF Cardinality(dots) > 1 \/ ~ \E i \in 1..Len(s) : IsDigit(s[i])
        THEN <<>>
        ELSE IF dots = {}
        THEN <<int(s) * 10>>
        ELSE LET dot == CHOOSE i \in dots : TRUE
             IN  <<int(SubSeq(s, 1, dot - 1)) * 10
                   + (IF dot < Len(s) THEN DigitValue(s[dot + 1]) ELSE 0)>>

\* WorkoutParser(): the locals of a call that has not begun
WorkoutParser ==
    [pc |-> "idle", text |-> <<>>, intervals |-> <<>>, current_section |-> <<>>,
     repeat_count |-> 0, repeat_intervals |-> <<>>, in_repeat_block |-> FALSE,
     result |-> <<>>]

\* for _ in range(repeat_count): intervals.extend(repeat_intervals.copy())
RECURSIVE Extend(_, _, _)
Extend(intervals, repeat_intervals, repeat_count) ==
    IF repeat_count <= 0 THEN intervals
    ELSE Extend(intervals \o repeat_intervals, repeat_intervals, repeat_count - 1)

\* an interval built without the test that duration and speed are positive
Interval_Unchecked(current_section, m) ==
    LET duration == int(m.duration)
        speed == float(m.speed)
    IN  IF speed = <<>> THEN <<>>
        ELSE <<[section |-> current_section, duration_min |-> duration,
                speed_mph |-> speed[1],
                description |-> IF m.description = <<>> THEN "" ELSE m.description[1],
                incline |-> 0]>>

\* the interval an interval line stands for: none where a number does not convert
\* or is not positive
Interval(current_section, m) ==
    LET duration == int(m.duration)
        speed == float(m.speed)
    IN  IF speed = <<>> THEN <<>>
        ELSE IF duration <= 0 \/ speed[1] <= 0 THEN <<>>
        ELSE <<[section |-> current_section, duration_min |-> duration,
                speed_mph |-> speed[1],
                description |-> IF m.description = <<>> THEN "" ELSE m.description[1],
                incline |-> 0]>>

\* the block is written out repeat_count times and capture mode is left
CloseRepeat(p) ==
    [p EXCEPT !.intervals = Extend(@, p.repeat_intervals, p.repeat_count),
              !.in_repeat_block = FALSE, !.repeat_intervals = <<>>]

\* one pass of the loop over the lines
ParseLine(p, line) ==
    IF line.blank THEN p
    ELSE IF line.section # <<>> THEN [p EXCEPT !.current_section = <<line.section[1]>>]
    ELSE IF line.repeat # <<>>
    THEN [p EXCEPT !.repeat_count = int(line.repeat), !.in_repeat_block = TRUE,
                   !.repeat_intervals = <<>>]
    ELSE LET found == IF line.interval = <<>> THEN <<>>
                      ELSE Interval(p.current_section, line.interval[1])
             p1 == IF p.in_repeat_block
                   THEN [p EXCEPT !.repeat_intervals = @ \o found]
                   ELSE [p EXCEPT !.intervals = @ \o found]
         IN  IF line.interval # <<>> /\ found = <<>> THEN p
             ELSE IF /\ p1.in_repeat_block
                     /\ p1.repeat_intervals # <<>>
                     /\ (line.blank \/ line.section # <<>>)
             THEN CloseRepeat(p1)
             ELSE p1

\* the end of the loop with no handling of a block still open
EndOfText_NoFlush(p) == [p EXCEPT !.pc = "returned", !.result = p.intervals]

\* after the last line: a block still open is written out, and the list returned
EndOfText(p) ==
    LET p1 == IF p.in_repeat_block /\ p.repeat_intervals # <<>> THEN CloseRepeat(p) ELSE p
    IN  [p1 EXCEPT !.pc = "returned", !.result = p1.intervals]

\* a call that tests only the truth of its argument, and splits whatever is true
parse_chatgpt_workout_Untyped(text) ==
    /\ parser.pc = "idle"
    /\ parser' = IF ~text.truthy THEN [parser EXCEPT !.pc = "returned", !.result = <<>>]
                 ELSE IF text.type # "str" THEN [parser EXCEPT !.pc = "raised"]
                 ELSE [parser EXCEPT !.pc = "loop"]
    /\ UNCHANGED <<WORKOUTS, SESSIONS, now, response, threads>>

\* parse_chatgpt_workout(text): an empty or non-string text returns [] at once
parse_chatgpt_workout(text) ==
    /\ parser.pc = "idle"
    /\ parser' = IF ~text.truthy \/ text.type # "str"
                 THEN [parser EXCEPT !.pc = "returned", !.result = <<>>]
                 ELSE [parser EXCEPT !.pc = "loop"]
    /\ UNCHANGED <<WORKOUTS, SESSIONS, now, response, threads>>

\* for line in lines: the next line of the text is read
parse_line(line) ==
    /\ parser.pc = "loop"
    /\ Len(parser.text) < MaxLines
    /\ parser' = [ParseLine(parser, line) EXCEPT !.text = Append(@, line)]
    /\ UNCHANGED <<WORKOUTS, SESSIONS, now, response, threads>>

\* the text (one line at least, as split gives) has no further line
parse_return ==
    /\ parser.pc = "loop"
    /\ parser.text # <<>>
    /\ parser' = EndOfText(parser)
    /\ UNCHANGED <<WORKOUTS, SESSIONS, now, response, threads>>

-----------------------------------------------------------------------------
(* The generator on its own: templates for a wide range of inputs *)

GenDurations == {-1, 0, 1, 2, 5, 9, 13, 30, 60}
GenSeeds == {0, 1, 12345}

GenInputs ==
    {EmptyDict}
    \cup {[duration_min |-> d] : d \in GenDurations}
    \cup {[duration_min |-> d, seed |-> s] : d \in GenDurations, s \in GenSeeds}

NoResponse == Respond("none", 0, 0)

Init ==
    /\ WORKOUTS = EmptyDict
    /\ SESSIONS = EmptyDict
    /\ now = 0
    /\ response = NoResponse
    /\ parser = WorkoutParser
    /\ threads = [th \in Threads |-> Idle]

GenNext ==
    \/ \E inputs \in GenInputs, drawn \in GenRandInts : generate_workout(inputs, drawn)
    \/ \E workout_id \in RequestWorkoutIds : get_workout(workout_id)
    \/ \E workout_id \in RequestWorkoutIds, drawn, drawn2 \in GenRandInts :
           regenerate_workout(workout_id, drawn, drawn2)

GenSpec == Init /\ [][GenNext]_vars

-----------------------------------------------------------------------------
(* The whole service: short templates, so that a session runs to its end *)

Inputs == {[duration_min |-> 1], [duration_min |-> 3, seed |-> 7]}

Next ==
    \/ \E inputs \in Inputs, drawn \in RandInts : generate_workout(inputs, drawn)
    \/ \E workout_id \in RequestWorkoutIds : get_workout(workout_id)
    \/ \E workout_id \in RequestWorkoutIds, drawn, drawn2 \in RandInts :
           regenerate_workout(workout_id, drawn, drawn2)
    \/ \E workout_id \in RequestWorkoutIds : create_session(workout_id)
    \/ \E sid \in RequestSessionIds : start_session(sid)
    \/ \E sid \in RequestSessionIds : pause_session(sid)
    \/ \E sid \in RequestSessionIds : resume_session(sid)
    \/ \E sid \in RequestSessionIds : skip_segment(sid)
    \/ \E sid \in RequestSessionIds : back_segment(sid)
    \/ \E sid \in RequestSessionIds : get_state(sid)
    \/ \E d \in ClockSteps : Advance(d)

Spec == Init /\ [][Next]_vars

-----------------------------------------------------------------------------
(* Narrower runs: one three-minute plan, the clock moving in long steps *)

RaceInputs == {[duration_min |-> 3, seed |-> 7]}
RaceClockSteps == {3 * ClockUnit}

-----------------------------------------------------------------------------
(* Two sessions side by side, on one template or on two *)

PairSessionIds == {1, 2}
PairClockSteps == {5 * ClockUnit}

PairNext ==
    \/ \E inputs \in RaceInputs, drawn \in RandInts : generate_workout(inputs, drawn)
    \/ \E workout_id \in RequestWorkoutIds : CreateSession(workout_id, PairSessionIds)
    \/ \E sid \in PairSessionIds : start_session(sid)
    \/ \E sid \in PairSessionIds : pause_session(sid)
    \/ \E sid \in PairSessionIds : resume_session(sid)
    \/ \E sid \in PairSessionIds : skip_segment(sid)
    \/ \E sid \in PairSessionIds : back_segment(sid)
    \/ \E sid \in PairSessionIds : get_state(sid)
    \/ \E d \in PairClockSteps : Advance(d)

PairSpec == Init /\ [][PairNext]_vars

-----------------------------------------------------------------------------
(* Overlapping getState calls on a started session *)


RaceNext ==
    \/ \E inputs \in RaceInputs, drawn \in RandInts : generate_workout(inputs, drawn)
    \/ \E workout_id \in RequestWorkoutIds : create_session(workout_id)
    \/ \E sid \in SessionIds : start_session(sid)
    \/ \E th \in Threads, sid \in SessionIds : get_state_enter(th, sid)
    \/ \E th \in Threads : tick_accrue(th)
    \/ \E th \in Threads : tick_rollover(th)
    \/ \E th \in Threads : tick_exit(th)
    \/ \E d \in RaceClockSteps : Advance(d)

RaceSpec == Init /\ [][RaceNext]_vars

-----------------------------------------------------------------------------
(* Sessions that are only started, paused, resumed and polled: a one-minute plan,
   a three-minute plan (60 and 120 seconds) and a seven-minute plan of three
   segments (60, 60 and 300 seconds) *)

NoSeekInputs ==
    {[duration_min |-> 1], [duration_min |-> 3, seed |-> 7], [duration_min |-> 7, seed |-> 7]}

NoSeekNext ==
    \/ \E inputs \in NoSeekInputs, drawn \in RandInts : generate_workout(inputs, drawn)
    \/ \E workout_id \in RequestWorkoutIds : create_session(workout_id)
    \/ \E sid \in RequestSessionIds : start_session(sid)
    \/ \E sid \in RequestSessionIds : pause_session(sid)
    \/ \E sid \in RequestSessionIds : resume_session(sid)
    \/ \E sid \in RequestSessionIds : get_state(sid)
    \/ \E d \in ClockSteps : Advance(d)

NoSeekSpec == Init /\ [][NoSeekNext]_vars

-----------------------------------------------------------------------------
(* A session that is started once and then only polled and skipped, under a client
   that keeps polling and a clock that keeps advancing up to MaxClock *)

LiveNext ==
    \/ \E inputs \in Inputs, drawn \in RandInts : generate_workout(inputs, drawn)
    \/ \E workout_id \in RequestWorkoutIds : create_session(workout_id)
    \/ \E sid \in SessionIds :
           /\ sid \in DOMAIN SESSIONS
           /\ SESSIONS[sid].status = "idle"
           /\ start_session(sid)
    \/ \E sid \in RequestSessionIds : skip_segment(sid)
    \/ \E sid \in RequestSessionIds : get_state(sid)
    \/ \E d \in ClockSteps : Advance(d)

LiveSpec ==
    /\ Init
    /\ [][LiveNext]_vars
    /\ WF_vars(\E d \in ClockSteps : Advance(d))
    /\ \A sid \in SessionIds : WF_vars(get_state(sid))

-----------------------------------------------------------------------------
(* The parser on its own: every text of up to MaxLines lines *)

ParseNext ==
    \/ \E text \in Texts : parse_chatgpt_workout(text)
    \/ \E line \in Lines : parse_line(line)
    \/ parse_return

ParseSpec == Init /\ [][ParseNext]_vars

-----------------------------------------------------------------------------
(* Properties of the generator, checked under GenSpec *)

DurationMin(w) == Get(w.inputs, "duration_min", DEFAULT_DURATION_MIN)

\* C1: for every duration_min > 0 and every seed, the segments of the generated
\* template sum to exactly duration_min * 60 seconds, and that sum equals the
\* template's stats.total_time_s.
C1_DurationFidelity ==
    \A wid \in DOMAIN WORKOUTS :
        LET w == WORKOUTS[wid]
        IN  DurationMin(w) > 0 =>
                /\ SumDurations(w.segments) = DurationMin(w) * 60
                /\ SumDurations(w.segments) = w.stats.total_time_s

\* C2: for every valid duration and every supplied integer seed s (s = 0 included),
\* two generate calls with the same (duration, s) give templates whose seed field
\* is s and whose segment lists are equal field for field; the random source is
\* drawn from only when the seed is omitted.
C2_SeedDeterminism ==
    \A a, b \in DOMAIN WORKOUTS :
        (/\ "seed" \in DOMAIN WORKOUTS[a].inputs
         /\ DurationMin(WORKOUTS[a]) > 0
         /\ WORKOUTS[a].inputs = WORKOUTS[b].inputs) =>
            /\ WORKOUTS[a].seed = WORKOUTS[a].inputs["seed"]
            /\ WORKOUTS[b].seed = WORKOUTS[a].inputs["seed"]
            /\ WORKOUTS[a].segments = WORKOUTS[b].segments

\* C11: a generate call whose duration_min is zero or negative is rejected and stores
\* no template: no stored template was built from a non-positive duration.
C11_NonPositiveRejected ==
    \A wid \in DOMAIN WORKOUTS : DurationMin(WORKOUTS[wid]) > 0

\* C12: in every generated segment list each segment has duration_s > 0, and the
\* index values are exactly 0..N-1 in list order.
C12_SegmentsWellFormed ==
    \A wid \in DOMAIN WORKOUTS :
        LET segs == WORKOUTS[wid].segments
        IN  \A i \in 1..Len(segs) : segs[i].duration_s > 0 /\ segs[i].index = i - 1

\* a stored plan of five segments or more, one of them cut short by the time left
C12_Witness ==
    \E wid \in DOMAIN WORKOUTS :
        LET segs == WORKOUTS[wid].segments
        IN  /\ Len(segs) >= 5
            /\ \E i \in 1..Len(segs) : segs[i].label = "push" /\ segs[i].duration_s < 60

\* C13: whatever the two seeds, a 30-minute template has total_time_s = 1800, a
\* 60-minute template has total_time_s = 3600, and their segment lists differ in
\* length.
C13_DifferentDurations ==
    \A a, b \in DOMAIN WORKOUTS :
        (DurationMin(WORKOUTS[a]) = 30 /\ DurationMin(WORKOUTS[b]) = 60) =>
            /\ WORKOUTS[a].stats.total_time_s = 1800
            /\ WORKOUTS[b].stats.total_time_s = 3600
            /\ Len(WORKOUTS[a].segments) # Len(WORKOUTS[b].segments)

\* a 30-minute and a 60-minute template, generated from different seeds
C13_Witness ==
    \E a, b \in DOMAIN WORKOUTS :
        /\ DurationMin(WORKOUTS[a]) = 30
        /\ DurationMin(WORKOUTS[b]) = 60
        /\ WORKOUTS[a].seed # WORKOUTS[b].seed
        /\ Len(WORKOUTS[a].segments) > 3

\* C34: the warmup of every generated plan lasts max(60, min(300, total / 10))
\* seconds, total being the plan's length in seconds: 180 s for a 30-minute plan.
C34_WarmupTenthOfTotal ==
    \A wid \in DOMAIN WORKOUTS :
        LET w == WORKOUTS[wid]
            total == DurationMin(w) * 60
        IN  DurationMin(w) > 0 =>
                /\ w.segments[1].label = "warmup"
                /\ w.segments[1].duration_s = Max(60, Min(300, total \div 10))

\* C35: every generated list starts with a warmup and has no other warmup, ends with
\* a cooldown of at most 300 s and has no other cooldown, and in between alternates
\* steady, push, steady, ... beginning with steady; a steady block lasts at most
\* 240 s and a push block at most 120 s.
C35_WarmupBlocksCooldown ==
    \A wid \in DOMAIN WORKOUTS :
        LET segs == WORKOUTS[wid].segments
            n == Len(segs)
        IN  /\ n >= 2
            /\ segs[1].label = "warmup"
            /\ segs[n].label = "cooldown"
            /\ segs[n].duration_s <= 300
            /\ \A i \in 2..(n - 1) :
                   /\ segs[i].label = (IF i % 2 = 0 THEN "steady" ELSE "push")
                   /\ segs[i].label = "steady" => segs[i].duration_s <= 240
                   /\ segs[i].label = "push" => segs[i].duration_s <= 120

\* a stored plan with full-length blocks of both kinds whose last block is a steady one
C35_Witness ==
    \E wid \in DOMAIN WORKOUTS :
        LET segs == WORKOUTS[wid].segments
            n == Len(segs)
        IN  /\ n >= 7
            /\ segs[n - 1].label = "steady"
            /\ \E i \in 2..(n - 1) : segs[i].label = "steady" /\ segs[i].duration_s = 240
            /\ \E i \in 2..(n - 1) : segs[i].label = "push" /\ segs[i].duration_s = 120

-----------------------------------------------------------------------------
(* Properties of the session timer and the stores, checked under Spec *)

Template(s) == WORKOUTS[s.workout_id]

\* C3: while a session is running, the elapsed_s a getState call returns is never
\* below the elapsed_s the getState call before it returned, for every template
\* the generator can produce and whatever the clock reads at the two calls.
C3_ElapsedNonDecreasing ==
    [][\A sid \in DOMAIN SESSIONS :
          (/\ response = Respond("get_state", sid, 200)
           /\ SESSIONS[sid].status = "running"
           /\ get_state(sid)) =>
              SESSIONS'[sid].elapsed_s >= SESSIONS[sid].elapsed_s]_vars

\* C4: pause on a running session first adds the time accrued since the last
\* baseline (clamped to the template's total when that tick reaches the end) and
\* leaves the session paused; from then on no getState call and no advance of the
\* clock changes elapsed_s or segment_elapsed_s.
C4_PauseFreezes ==
    [][\A sid \in DOMAIN SESSIONS :
          LET s == SESSIONS[sid]
              after == SESSIONS'[sid]
          IN  /\ (s.status = "running" /\ pause_session(sid)) =>
                    /\ after.status = "paused"
                    /\ \/ after.elapsed_s = s.elapsed_s + (now - s.last_tick_mono)
                       \/ /\ after.current_segment_index >= Len(Template(s).segments)
                          /\ after.elapsed_s = Template(s).stats.total_time_s
              /\ (s.status = "paused" /\ (get_state(sid) \/ \E d \in ClockSteps : Advance(d))) =>
                    /\ after.status = "paused"
                    /\ after.elapsed_s = s.elapsed_s
                    /\ after.segment_elapsed_s = s.segment_elapsed_s]_vars

\* a paused session that has accrued time, read by getState after the clock moved on
C4_Witness ==
    \E sid \in DOMAIN SESSIONS :
        /\ SESSIONS[sid].status = "paused"
        /\ SESSIONS[sid].elapsed_s > 0
        /\ now > SESSIONS[sid].last_tick_mono
        /\ response = Respond("get_state", sid, 200)

\* C5: after start and as many skip calls as the template has segments, the next
\* getState reports status completed and elapsed_s equal to the template's total
\* duration, also when the clock has not moved since the last skip.
C5_SkipThroughCompletes ==
    [][\A sid \in DOMAIN SESSIONS :
          (/\ response = Respond("skip", sid, 200)
           /\ SESSIONS[sid].status = "running"
           /\ SESSIONS[sid].current_segment_index = Len(Template(SESSIONS[sid]).segments)
           /\ get_state(sid)) =>
              /\ SESSIONS'[sid].status = "completed"
              /\ SESSIONS'[sid].elapsed_s = Template(SESSIONS[sid]).stats.total_time_s]_vars

\* C6: once a session's status is completed it stays completed, whatever is called.
C6_CompletedIsTerminal ==
    [][\A sid \in DOMAIN SESSIONS :
          SESSIONS[sid].status = "completed" => SESSIONS'[sid].status = "completed"]_vars

\* C7: regenerate on a known template stores a new template under an id no
\* template had, built from the same inputs except the seed, and no operation
\* (generate, regenerate, any session operation) removes or modifies a stored
\* template: the original stays retrievable with its inputs, seed, segments and
\* stats.
C7_RegeneratePreservesHistory ==
    [][/\ \A wid \in DOMAIN WORKOUTS :
              wid \in DOMAIN WORKOUTS' /\ WORKOUTS'[wid] = WORKOUTS[wid]
       /\ \A wid \in DOMAIN WORKOUTS :
              (\E drawn, drawn2 \in RandInts : regenerate_workout(wid, drawn, drawn2)) =>
                  /\ response'.code = 200
                  /\ response'.id \notin DOMAIN WORKOUTS
                  /\ response'.id \in DOMAIN WORKOUTS'
                  /\ LET new == WORKOUTS'[response'.id]
                         base == WORKOUTS[wid]
                     IN  /\ new.id = response'.id
                         /\ DOMAIN new.inputs = DOMAIN base.inputs \cup {"seed"}
                         /\ \A k \in DOMAIN base.inputs \ {"seed"} :
                                new.inputs[k] = base.inputs[k]
                         /\ new.stats = base.stats]_vars

\* a regenerated template stored beside the one it was made from
C7_Witness ==
    /\ response.op = "regenerate"
    /\ response.code = 200
    /\ Cardinality(DOMAIN WORKOUTS) = 2
    /\ \E sid \in DOMAIN SESSIONS : SESSIONS[sid].status = "running"

SessionCalls(sid) ==
    \/ start_session(sid)
    \/ pause_session(sid)
    \/ resume_session(sid)
    \/ skip_segment(sid)
    \/ back_segment(sid)
    \/ get_state(sid)

\* C8: start, pause, resume, skip, back and getState on a session id that is not
\* in the session store each fail with NotFound (404) and leave the session store
\* and the template store unchanged.
C8_UnknownSessionNotFound ==
    [][\A sid \in RequestSessionIds \ DOMAIN SESSIONS :
          SessionCalls(sid) =>
              /\ response'.code = 404
              /\ response'.id = sid
              /\ response'.op \in {"start", "pause", "resume", "skip", "back", "get_state"}
              /\ SESSIONS' = SESSIONS
              /\ WORKOUTS' = WORKOUTS]_vars

\* a skip refused for an unknown session id while another session is running
C8_Witness ==
    /\ response.op = "skip"
    /\ response.code = 404
    /\ response.id \notin DOMAIN SESSIONS
    /\ \E sid \in DOMAIN SESSIONS : SESSIONS[sid].status = "running"

WorkoutCalls(workout_id) ==
    \/ get_workout(workout_id)
    \/ \E drawn, drawn2 \in RandInts : regenerate_workout(workout_id, drawn, drawn2)
    \/ create_session(workout_id)

\* C9: get, regenerate and create-session with a template id that is not in the
\* template store each fail with NotFound (404) and create no template and no
\* session.
C9_UnknownWorkoutNotFound ==
    [][\A workout_id \in RequestWorkoutIds \ DOMAIN WORKOUTS :
          WorkoutCalls(workout_id) =>
              /\ response'.code = 404
              /\ response'.id = workout_id
              /\ response'.op \in {"get", "regenerate", "create"}
              /\ WORKOUTS' = WORKOUTS
              /\ SESSIONS' = SESSIONS]_vars

\* a create-session refused for an unknown template id while a template is stored
C9_Witness ==
    /\ response.op = "create"
    /\ response.code = 404
    /\ response.id \notin DOMAIN WORKOUTS
    /\ DOMAIN WORKOUTS # {}
    /\ SESSIONS = EmptyDict

\* C10: create on a known template id returns a session with status idle,
\* elapsed_s = 0, segment_elapsed_s = 0 and current_segment_index = 0, and while
\* the session stays idle every getState (however far the clock has advanced)
\* keeps elapsed_s and segment_elapsed_s at 0.
C10_CreateIdleAtZero ==
    [][/\ \A workout_id \in DOMAIN WORKOUTS :
              create_session(workout_id) =>
                  /\ response'.code = 200
                  /\ response'.id \in DOMAIN SESSIONS' \ DOMAIN SESSIONS
                  /\ LET s == SESSIONS'[response'.id]
                     IN  /\ s.workout_id = workout_id
                         /\ s.status = "idle"
                         /\ s.elapsed_s = 0
                         /\ s.segment_elapsed_s = 0
                         /\ s.current_segment_index = 0
       /\ \A sid \in DOMAIN SESSIONS :
              (SESSIONS[sid].status = "idle" /\ get_state(sid)) =>
                  /\ SESSIONS'[sid].status = "idle"
                  /\ SESSIONS'[sid].elapsed_s = 0
                  /\ SESSIONS'[sid].segment_elapsed_s = 0
                  /\ SESSIONS'[sid].current_segment_index = SESSIONS[sid].current_segment_index]_vars

\* an idle session read by getState after the clock moved on from its creation
C10_Witness ==
    \E sid \in DOMAIN SESSIONS :
        /\ SESSIONS[sid].status = "idle"
        /\ now > SESSIONS[sid].last_tick_mono
        /\ response = Respond("get_state", sid, 200)

\* C14: back never makes current_segment_index negative: the index is >= 0 in
\* every state, and back on a session that is in segment 0 when the call acts
\* (the time accrued applied) leaves the index at 0 and sets segment_elapsed_s
\* to 0.
C14_BackNeverNegative ==
    [][\A sid \in DOMAIN SESSIONS' :
          /\ SESSIONS'[sid].current_segment_index >= 0
          /\ (/\ sid \in DOMAIN SESSIONS
              /\ back_segment(sid)
              /\ Tick(SESSIONS[sid], now).current_segment_index = 0) =>
                 /\ SESSIONS'[sid].current_segment_index = 0
                 /\ SESSIONS'[sid].segment_elapsed_s = 0]_vars

\* a running session stepped back while in its first segment, one clock unit in
C14_Witness ==
    \E sid \in DOMAIN SESSIONS :
        /\ response = Respond("back", sid, 200)
        /\ SESSIONS[sid].status = "running"
        /\ SESSIONS[sid].current_segment_index = 0
        /\ SESSIONS[sid].segment_elapsed_s = 0
        /\ SESSIONS[sid].elapsed_s = ClockUnit

\* C15: right after any one operation that raises current_segment_index,
\* segment_elapsed_s is 0 if the operation is skip, and otherwise (a tick that
\* rolled over one or more segments) strictly less than that call's tick delta.
C15_SegmentElapsedAfterAdvance ==
    [][\A sid \in DOMAIN SESSIONS \cap DOMAIN SESSIONS' :
          LET s == SESSIONS[sid]
              after == SESSIONS'[sid]
              delta == Max(0, now - s.last_tick_mono)
          IN  after.current_segment_index > s.current_segment_index =>
                  IF response'.op = "skip"
                  THEN after.segment_elapsed_s = 0
                  ELSE after.segment_elapsed_s < delta]_vars

\* a getState that found a running session past its first segment boundary, with
\* the overflow carried into the second segment
C15_Witness ==
    \E sid \in DOMAIN SESSIONS :
        LET s == SESSIONS[sid]
        IN  /\ response = Respond("get_state", sid, 200)
            /\ s.status = "running"
            /\ s.current_segment_index = 1
            /\ s.segment_elapsed_s > 0
            /\ s.elapsed_s = Template(s).segments[1].duration_s + s.segment_elapsed_s

\* C16: start on an idle session and resume on a paused one, called at clock r,
\* count nothing for the time before r (elapsed_s is kept and the tick baseline
\* becomes r), and the getState that follows at clock t >= r reports the elapsed_s
\* of the resume plus t - r, or the template total once the session completes.
C16_ResumeRebaselines ==
    [][\A sid \in DOMAIN SESSIONS :
          LET s == SESSIONS[sid]
              after == SESSIONS'[sid]
          IN  /\ (\/ (s.status = "idle" /\ start_session(sid))
                  \/ (s.status = "paused" /\ resume_session(sid))) =>
                     /\ after.status = "running"
                     /\ after.elapsed_s = s.elapsed_s
                     /\ after.segment_elapsed_s = s.segment_elapsed_s
                     /\ after.last_tick_mono = now
              /\ (/\ response.op \in {"start", "resume"}
                  /\ response.id = sid
                  /\ s.status = "running"
                  /\ get_state(sid)) =>
                     \/ after.elapsed_s = s.elapsed_s + (now - s.last_tick_mono)
                     \/ /\ after.status = "completed"
                        /\ after.elapsed_s = Template(s).stats.total_time_s]_vars

\* a session just resumed that ran for a while and then sat paused for a while
C16_Witness ==
    \E sid \in DOMAIN SESSIONS :
        LET s == SESSIONS[sid]
        IN  /\ response = Respond("resume", sid, 200)
            /\ s.status = "running"
            /\ s.elapsed_s > 0
            /\ s.segment_elapsed_s = s.elapsed_s
            /\ s.last_tick_mono = now
            /\ now >= s.elapsed_s + 2 * ClockUnit

\* C20: abort is an operation the service offers: for a session in any status
\* that is not terminal, some call moves it to aborted.
C20_AbortAvailable ==
    \A sid \in DOMAIN SESSIONS :
        SESSIONS[sid].status \in {"idle", "running", "paused"} =>
            ENABLED (Next /\ SESSIONS'[sid].status = "aborted")

\* C23: skip on a running session whose current segment is the last one applies
\* the completion rule in that same call: the state it returns has status
\* completed, segment_elapsed_s = 0 and elapsed_s equal to the template's total.
C23_SkipOnLastCompletes ==
    [][\A sid \in DOMAIN SESSIONS :
          LET s == Tick(SESSIONS[sid], now)
              after == SESSIONS'[sid]
          IN  (/\ s.status = "running"
               /\ s.current_segment_index = Len(Template(s).segments) - 1
               /\ skip_segment(sid)) =>
                  /\ after.status = "completed"
                  /\ after.segment_elapsed_s = 0
                  /\ after.elapsed_s = Template(s).stats.total_time_s]_vars

\* C24: start or resume on a session that is already running loses no accrued
\* time: a getState at the same clock reading reports the same elapsed_s with the
\* extra call as without it.
C24_StartOnRunningIdempotent ==
    [][\A sid \in DOMAIN SESSIONS :
          (/\ SESSIONS[sid].status = "running"
           /\ (start_session(sid) \/ resume_session(sid))) =>
              Tick(SESSIONS'[sid], now).elapsed_s = Tick(SESSIONS[sid], now).elapsed_s]_vars

\* the readings the clock can show
Clocks == {k * ClockUnit : k \in 0..MaxTicks}

\* what a caller sees of a session's timer
Observed(s) == <<s.status, s.elapsed_s, s.segment_elapsed_s, s.current_segment_index>>

\* C25: the timer does not depend on how often it is polled: for a running session
\* and clock readings t1 <= t2, a tick at t1 followed by a tick at t2 leaves the
\* same status, elapsed_s, segment_elapsed_s and current_segment_index as a single
\* tick at t2.
C25_PollingIndependent ==
    \A sid \in DOMAIN SESSIONS :
        LET s == SESSIONS[sid]
        IN  s.status = "running" =>
                \A t1, t2 \in Clocks :
                    (now <= t1 /\ t1 <= t2) =>
                        Observed(Tick(Tick(s, t1), t2)) = Observed(Tick(s, t2))

\* a running session read by getState in its first segment, with a poll ahead that
\* finds it in a later segment and a still later one that finds it finished
C25_Witness ==
    \E sid \in DOMAIN SESSIONS :
        LET s == SESSIONS[sid]
        IN  /\ response = Respond("get_state", sid, 200)
            /\ s.status = "running"
            /\ s.current_segment_index = 0
            /\ s.segment_elapsed_s > 0
            /\ \E t1, t2 \in Clocks :
                   /\ now < t1 /\ t1 < t2
                   /\ Tick(s, t1).status = "running"
                   /\ Tick(s, t1).current_segment_index = 1
                   /\ Tick(s, t1).segment_elapsed_s > 0
                   /\ Tick(s, t2).status = "completed"

\* the edges of the status diagram
StatusEdges ==
    {<<"idle", "running">>, <<"running", "paused">>, <<"paused", "running">>,
     <<"running", "completed">>}

\* C26: every change of a session's status follows an edge of the diagram (idle
\* to running, running to paused, paused to running, running to completed): pause
\* does not make an idle session paused, and only an idle or paused session
\* becomes running.
C26_StatusFollowsDiagram ==
    [][\A sid \in DOMAIN SESSIONS :
          SESSIONS'[sid].status # SESSIONS[sid].status =>
              <<SESSIONS[sid].status, SESSIONS'[sid].status>> \in StatusEdges]_vars

\* C27: skip and back change only current_segment_index and segment_elapsed_s:
\* elapsed_s, status and the tick baseline come out as the tick they apply first
\* leaves them, so a session that is not running keeps its elapsed_s and status.
C27_SkipBackKeepElapsed ==
    [][\A sid \in DOMAIN SESSIONS :
          LET s == SESSIONS[sid]
              after == SESSIONS'[sid]
          IN  (skip_segment(sid) \/ back_segment(sid)) =>
                  /\ [after EXCEPT !.current_segment_index = 0, !.segment_elapsed_s = 0]
                       = [Tick(s, now) EXCEPT !.current_segment_index = 0,
                                              !.segment_elapsed_s = 0]
                  /\ s.status # "running" =>
                         after.elapsed_s = s.elapsed_s /\ after.status = s.status
                  /\ s.status = "running" =>
                         \/ after.elapsed_s = s.elapsed_s + (now - s.last_tick_mono)
                         \/ after.status = "completed"]_vars

\* a running session skipped out of its first segment before that segment's end,
\* its elapsed_s kept
C27_Witness ==
    \E sid \in DOMAIN SESSIONS :
        LET s == SESSIONS[sid]
        IN  /\ response = Respond("skip", sid, 200)
            /\ s.status = "running"
            /\ s.current_segment_index = 1
            /\ s.segment_elapsed_s = 0
            /\ s.elapsed_s = ClockUnit
            /\ s.elapsed_s < Template(s).segments[1].duration_s

\* C28: in every reachable state elapsed_s is at most the template's total
\* duration (taken for the templates whose segments sum to stats.total_time_s),
\* whatever mix of start, pause, resume, skip, back and getState was applied.
C28_ElapsedAtMostTotal ==
    \A sid \in DOMAIN SESSIONS :
        LET s == SESSIONS[sid]
        IN  SumDurations(Template(s).segments) = Template(s).stats.total_time_s =>
                s.elapsed_s <= Template(s).stats.total_time_s

\* C29: in every reachable state current_segment_index is at most the number of
\* segments of the session's template, and strictly below it while the session is
\* running.
C29_IndexInRange ==
    \A sid \in DOMAIN SESSIONS :
        LET s == SESSIONS[sid]
        IN  /\ s.current_segment_index <= Len(Template(s).segments)
            /\ s.status = "running" => s.current_segment_index < Len(Template(s).segments)

\* C30: whenever a session's status is completed, elapsed_s equals the template's
\* stats.total_time_s and segment_elapsed_s is 0, also after skip, back or
\* getState calls on the completed session.
C30_CompletedAtTotal ==
    \A sid \in DOMAIN SESSIONS :
        LET s == SESSIONS[sid]
        IN  s.status = "completed" =>
                /\ s.elapsed_s = Template(s).stats.total_time_s
                /\ s.segment_elapsed_s = 0

\* a session that ran to its end on the clock and was then stepped back
C30_Witness ==
    \E sid \in DOMAIN SESSIONS :
        LET s == SESSIONS[sid]
        IN  /\ response = Respond("back", sid, 200)
            /\ s.status = "completed"
            /\ s.current_segment_index < Len(Template(s).segments)
            /\ s.last_tick_mono >= SumDurations(Template(s).segments)

\* C31: whenever current_segment_index is below the segment count,
\* 0 <= segment_elapsed_s < duration_s of the current segment: no operation leaves a
\* full segment's worth of time pending on the current segment.
C31_SegmentElapsedInRange ==
    \A sid \in DOMAIN SESSIONS :
        LET s == SESSIONS[sid]
            segs == Template(s).segments
        IN  s.current_segment_index < Len(segs) =>
                /\ 0 <= s.segment_elapsed_s
                /\ s.segment_elapsed_s < segs[s.current_segment_index + 1].duration_s

\* a getState whose tick landed exactly on the end of the first segment, with no
\* skip before it: the session is at the start of the second segment
C31_Witness ==
    \E sid \in DOMAIN SESSIONS :
        LET s == SESSIONS[sid]
            segs == Template(s).segments
        IN  /\ response = Respond("get_state", sid, 200)
            /\ s.status = "running"
            /\ s.current_segment_index = 1
            /\ Len(segs) > 1
            /\ s.segment_elapsed_s = 0
            /\ s.elapsed_s = segs[1].duration_s
            /\ s.last_tick_mono = now

-----------------------------------------------------------------------------
(* Properties of sessions without skip or back, checked under NoSeekSpec *)

\* the durations of the segments before the current one
Before(s) ==
    SumDurations(SubSeq(Template(s).segments, 1,
                        Min(s.current_segment_index, Len(Template(s).segments))))

\* C32: on a session where skip and back were never called, in every state that is
\* not completed, elapsed_s = (sum of the durations of segments 0..index-1)
\* + segment_elapsed_s; and a tick that does not complete the session adds the whole
\* interval since the last tick to elapsed_s, however many segments it passes.
C32_ElapsedIsSegmentsPlusCurrent ==
    /\ [](\A sid \in DOMAIN SESSIONS :
             SESSIONS[sid].status # "completed" =>
                 SESSIONS[sid].elapsed_s = Before(SESSIONS[sid]) + SESSIONS[sid].segment_elapsed_s)
    /\ [][\A sid \in DOMAIN SESSIONS :
             (get_state(sid) /\ SESSIONS[sid].status = "running"
                             /\ SESSIONS'[sid].status = "running") =>
                 /\ SESSIONS'[sid].elapsed_s =
                        SESSIONS[sid].elapsed_s + (now - SESSIONS[sid].last_tick_mono)
                 /\ SESSIONS'[sid].elapsed_s =
                        Before(SESSIONS'[sid]) + SESSIONS'[sid].segment_elapsed_s]_vars

-----------------------------------------------------------------------------
(* Properties of a polled session, checked under LiveSpec *)

\* the running time a session still needs before a tick completes it
Remaining(s) ==
    LET segs == Template(s).segments
    IN  IF s.current_segment_index < Len(segs)
        THEN SumDurations(SubSeq(segs, s.current_segment_index + 1, Len(segs)))
                 - s.segment_elapsed_s
        ELSE 1

\* C33: a running session that is not paused, stepped back, started or resumed again,
\* and is polled by getState again and again while the clock advances, eventually
\* reaches completed (here: whenever the clock can still cover what the session
\* needs); and one tick moves the index by at most the number of segments, so the
\* rollover loop ends after at most that many iterations.
C33_PolledSessionCompletes ==
    /\ \A sid \in SessionIds :
           (/\ sid \in DOMAIN SESSIONS
            /\ SESSIONS[sid].status = "running"
            /\ Remaining(SESSIONS[sid]) <= MaxClock - SESSIONS[sid].last_tick_mono)
               ~> (sid \in DOMAIN SESSIONS /\ SESSIONS[sid].status = "completed")
    /\ [][\A sid \in DOMAIN SESSIONS :
             get_state(sid) =>
                 /\ SESSIONS'[sid].current_segment_index >= SESSIONS[sid].current_segment_index
                 /\ SESSIONS'[sid].current_segment_index - SESSIONS[sid].current_segment_index
                        <= Len(Template(SESSIONS[sid]).segments)]_vars

\* a poll has just completed a session at the end of its last segment
C33_Witness ==
    \E sid \in DOMAIN SESSIONS :
        LET s == SESSIONS[sid]
        IN  /\ response = Respond("get_state", sid, 200)
            /\ s.status = "completed"
            /\ s.current_segment_index = Len(Template(s).segments)
            /\ s.last_tick_mono = now
            /\ s.elapsed_s = Template(s).stats.total_time_s

-----------------------------------------------------------------------------
(* Properties of the parser, checked under ParseSpec *)

\* the branch of the loop a line takes
IsBlank(line) == line.blank
IsHeader(line) == ~line.blank /\ line.section # <<>>
IsRepeat(line) == ~line.blank /\ line.section = <<>> /\ line.repeat # <<>>
IsIntervalLine(line) ==
    ~line.blank /\ line.section = <<>> /\ line.repeat = <<>> /\ line.interval # <<>>

\* an interval line whose duration and speed are positive numbers
IsValidInterval(line) ==
    /\ IsIntervalLine(line)
    /\ int(line.interval[1].duration) > 0
    /\ float(line.interval[1].speed) # <<>>
    /\ float(line.interval[1].speed)[1] > 0

\* the duration and speed of each interval of a list
Shapes(intervals) ==
    [i \in 1..Len(intervals) |-> <<intervals[i].duration_min, intervals[i].speed_mph>>]

\* the duration and speed written on each valid interval line of lines i..j of
\* the text, in order
Written(text, i, j) ==
    LET valid == SelectSeq(SubSeq(text, i, j), IsValidInterval)
    IN  [n \in 1..Len(valid) |->
            <<int(valid[n].interval[1].duration), float(valid[n].interval[1].speed)[1]>>]

\* C17: a text with one Repeat directive (count n) followed to the end of input by
\* k >= 1 valid interval lines gives the intervals written before the directive,
\* then the k-sequence n times over (a, b, a, b): n * k intervals for the block.
C17_RepeatToEndOfInput ==
    parser.pc = "returned" =>
        \A i \in 1..Len(parser.text) :
            (/\ IsRepeat(parser.text[i])
             /\ \A j \in 1..Len(parser.text) : j # i => ~IsRepeat(parser.text[j])
             /\ i < Len(parser.text)
             /\ \A j \in (i + 1)..Len(parser.text) : IsValidInterval(parser.text[j])) =>
                Shapes(parser.result) =
                    Written(parser.text, 1, i - 1)
                    \o Extend(<<>>, Written(parser.text, i + 1, Len(parser.text)),
                              int(parser.text[i].repeat))

\* an interval, then a Repeat directive, then two different valid interval lines
\* up to the end of the text
C17_Witness ==
    /\ parser.pc = "returned"
    /\ Len(parser.text) = 4
    /\ IsValidInterval(parser.text[1])
    /\ IsRepeat(parser.text[2])
    /\ IsValidInterval(parser.text[3])
    /\ IsValidInterval(parser.text[4])
    /\ parser.text[3] # parser.text[4]
    /\ Len(parser.result) = 1 + 2 * int(parser.text[2].repeat)

\* C18: a blank line or a section header met while a repeat block is being
\* captured closes it: the intervals written before the directive, then the block
\* n times over, then every valid interval line after the closing line once.
C18_BlankOrHeaderCloses ==
    parser.pc = "returned" =>
        \A i, c \in 1..Len(parser.text) :
            (/\ IsRepeat(parser.text[i])
             /\ \A j \in 1..Len(parser.text) : j # i => ~IsRepeat(parser.text[j])
             /\ i + 1 < c
             /\ \A j \in (i + 1)..(c - 1) : IsValidInterval(parser.text[j])
             /\ (IsBlank(parser.text[c]) \/ IsHeader(parser.text[c]))) =>
                Shapes(parser.result) =
                    Written(parser.text, 1, i - 1)
                    \o Extend(<<>>, Written(parser.text, i + 1, c - 1),
                              int(parser.text[i].repeat))
                    \o Written(parser.text, c + 1, Len(parser.text))

C37_PlainTextInOrder ==
    (/\ parser.pc = "returned"
     /\ \A j \in 1..Len(parser.text) : ~IsRepeat(parser.text[j])) =>
        Shapes(parser.result) = Written(parser.text, 1, Len(parser.text))

\* a header, two different valid interval lines and, between them, a line that
\* gives nothing
C37_Witness ==
    /\ parser.pc = "returned"
    /\ Len(parser.text) = 4
    /\ IsHeader(parser.text[1])
    /\ IsValidInterval(parser.text[2])
    /\ ~IsValidInterval(parser.text[3])
    /\ ~IsRepeat(parser.text[3])
    /\ IsValidInterval(parser.text[4])
    /\ parser.text[2] # parser.text[4]
    /\ Shapes(parser.result) = Written(parser.text, 2, 2) \o Written(parser.text, 4, 4)

\* C38: every valid interval line that follows a Repeat directive with count n >= 1
\* appears in the output at least once; in particular a second Repeat directive met
\* while the first block still holds buffered intervals does not discard them.
C38_RepeatedLinesAppear ==
    parser.pc = "returned" =>
        \A i, j \in 1..Len(parser.text) :
            (/\ i < j
             /\ IsRepeat(parser.text[i])
             /\ int(parser.text[i].repeat) >= 1
             /\ IsValidInterval(parser.text[j])) =>
                \E n \in 1..Len(parser.result) :
                    <<Shapes(parser.result)[n]>> = Written(parser.text, j, j)

\* the number of the `incline <number>` token of a description, if it has one
InclineToken(description) == IF description = "incline 2" THEN <<2>> ELSE <<>>

\* C39: an interval line that contains an incline token gives an interval whose
\* incline is the token's number; the incline is 0 only when the line has no token.
C39_InclineTokenParsed ==
    parser.pc = "returned" =>
        \A n \in 1..Len(parser.result) :
            LET token == InclineToken(parser.result[n].description)
            IN  parser.result[n].incline = (IF token = <<>> THEN 0 ELSE token[1])

-----------------------------------------------------------------------------
(* Properties of two sessions side by side, checked under PairSpec *)

\* C22: an operation on one session (its creation included) changes no field of
\* any other session, also one created from the same template, and changes no
\* template.
C22_SessionsDoNotInteract ==
    [][/\ \A sid \in PairSessionIds :
              SessionCalls(sid) =>
                  /\ WORKOUTS' = WORKOUTS
                  /\ \A other \in DOMAIN SESSIONS \ {sid} :
                         other \in DOMAIN SESSIONS' /\ SESSIONS'[other] = SESSIONS[other]
       /\ \A workout_id \in RequestWorkoutIds :
              CreateSession(workout_id, PairSessionIds) =>
                  /\ WORKOUTS' = WORKOUTS
                  /\ \A other \in DOMAIN SESSIONS :
                         other \in DOMAIN SESSIONS' /\ SESSIONS'[other] = SESSIONS[other]]_vars

\* two sessions of one template, one idle and untouched, the other just read by
\* getState while running with time on its counters
C22_Witness ==
    \E sid, other \in DOMAIN SESSIONS :
        /\ sid # other
        /\ SESSIONS[sid].workout_id = SESSIONS[other].workout_id
        /\ response = Respond("get_state", sid, 200)
        /\ SESSIONS[sid].status = "running"
        /\ SESSIONS[sid].elapsed_s > 0
        /\ SESSIONS[other].status = "idle"
        /\ SESSIONS[other].elapsed_s = 0

-----------------------------------------------------------------------------
(* Properties of overlapping calls, checked under RaceSpec *)

\* C21: calls that overlap on one session are serialised, so no stretch of the
\* clock is added to elapsed_s twice: a session that is only started and read
\* never shows more elapsed time than the clock has moved.
C21_NoIntervalCountedTwice ==
    \A sid \in DOMAIN SESSIONS : SESSIONS[sid].elapsed_s <= now

====
